---- MODULE Spec2Model ----
(***************************************************************************)
(* A model of renderable/__init__.py: the renderable tree, the conversion  *)
(* registries of the markup and the target-language family, the markup     *)
(* node with its in-place reconfigure operation, and the dual-             *)
(* representation node with its identity, handle, render function and      *)
(* bootstrap script.                                                       *)
(*                                                                         *)
(* Python values are records tagged by t (the class, or the builtin type). *)
(* A node object is addressed by its slot in the heap and carries its      *)
(* class in the reference; texts, lazy texts and node lists are immutable  *)
(* after construction and are modelled by value.  Text is a TLA+ string.   *)
(* A call either returns a value or raises: a result is [ok, s, err].      *)
(***************************************************************************)
EXTENDS Integers, Sequences, FiniteSets, TLC

VARIABLES
    nodes,    \* the heap: slot -> node object (NoNode while unallocated)
    shared,   \* the items of the dict object the caller keeps
    last,     \* the last operation: its arguments and what it returned
    pc,       \* the statement the example driver is at
    conv      \* the input and the result of a conversion

vars == <<nodes, shared, last, pc, conv>>

(***************************************************************************)
(* Bounds of the model.                                                    *)
(***************************************************************************)
MaxNodes == 2

MaxAttrNodes == 1

MaxConverters == 2

(***************************************************************************)
(* Python values.                                                          *)
(***************************************************************************)
PyNone == [t |-> "None"]

Ellipsis == [t |-> "Ellipsis"]

PyStr(s) == [t |-> "str", s |-> s]

PyInt(i) == [t |-> "int", i |-> i]

PyList(items) == [t |-> "list", items |-> items]

PyDict(items) == [t |-> "dict", items |-> items]

\* The one dict object the caller keeps and may pass to several constructors.
SharedDict == [t |-> "shared"]

Text(text) == [t |-> "Text", text |-> text]

HtmlText(text) == [t |-> "HtmlText", text |-> text]

JsText(text) == [t |-> "JsText", text |-> text]

JsTextNode(text) == [t |-> "JsTextNode", text |-> text]

HtmlLazyText(fn) == [t |-> "HtmlLazyText", fn |-> fn]

JsLazyTextNode(fn) == [t |-> "JsLazyTextNode", fn |-> fn]

Obj(cls, n) == [t |-> "obj", cls |-> cls, id |-> n]

Bootstrap(dom) == [t |-> "Bootstrap", dom |-> dom]

NodeClasses == {"HtmlNode", "JsHtmlNode", "JsFrozenHtmlNode"}

JsNodeClasses == {"JsHtmlNode", "JsFrozenHtmlNode"}

ClassOf(v) == IF v.t = "obj" THEN v.cls ELSE v.t

JsRenderableClasses == {"JsTextNode", "JsLazyTextNode"} \cup JsNodeClasses

HtmlRenderableClasses ==
    {"HtmlText", "HtmlLazyText", "HtmlNodeList", "HtmlNode", "JsText",
     "JsNodeList", "Bootstrap"} \cup JsRenderableClasses

RenderableClasses == {"Text"} \cup HtmlRenderableClasses

IsRenderable(v) == ClassOf(v) \in RenderableClasses

IsHtmlRenderable(v) == ClassOf(v) \in HtmlRenderableClasses

IsJsRenderable(v) == ClassOf(v) \in JsRenderableClasses

Truthy(v) ==
    CASE v.t = "None" -> FALSE
      [] v.t = "str" -> v.s # ""
      [] v.t = "int" -> v.i # 0
      [] v.t = "list" -> Len(v.items) > 0
      [] v.t = "dict" -> Len(v.items) > 0
      [] OTHER -> TRUE

Or(v, default) == IF Truthy(v) THEN v ELSE default

Str(v) ==
    CASE v.t = "str" -> v.s
      [] v.t = "int" -> ToString(v.i)
      [] v.t = "None" -> "None"
      [] OTHER -> "<" \o v.t \o ">"

(***************************************************************************)
(* Results of calls: a returned text or value, or a raised exception.      *)
(***************************************************************************)
Ok(s) == [ok |-> TRUE, s |-> s, err |-> ""]

Raise(err) == [ok |-> FALSE, s |-> "", err |-> err]

Returned(v) == [ok |-> TRUE, v |-> v, err |-> ""]

Raised(err, msg) == [ok |-> FALSE, v |-> PyNone, err |-> err, msg |-> msg]

(***************************************************************************)
(* dict, kept as the ordered sequence of its items.                        *)
(***************************************************************************)
Item(key, val) == [key |-> key, value |-> val]

Keys(d) == {d[i].key : i \in 1..Len(d)}

HasKey(d, key) == \E i \in 1..Len(d) : d[i].key = key

Get(d, key) ==
    IF HasKey(d, key)
    THEN d[CHOOSE i \in 1..Len(d) : d[i].key = key].value
    ELSE PyNone

SetItem(d, key, val) ==
    IF HasKey(d, key)
    THEN [i \in 1..Len(d) |-> IF d[i].key = key THEN Item(key, val) ELSE d[i]]
    ELSE Append(d, Item(key, val))

RECURSIVE Update(_, _)
Update(d, other) ==
    IF other = <<>> THEN d
    ELSE Update(SetItem(d, other[1].key, other[1].value), Tail(other))

RECURSIVE Join(_, _)
Join(sep, strs) ==
    IF strs = <<>> THEN ""
    ELSE IF Len(strs) = 1 THEN strs[1]
    ELSE strs[1] \o sep \o Join(sep, Tail(strs))

\* repr(v), of a value of the current heap.  A class that defines no
\* __repr__ prints as an object of its class.
RECURSIVE Repr(_)
ReprItem(item) == "'" \o item.key \o "': " \o Repr(item.value)

Repr(v) ==
    CASE v.t = "str" -> "'" \o v.s \o "'"
      [] v.t \in {"int", "None"} -> Str(v)
      [] v.t = "list" ->
           "[" \o Join(", ", [i \in 1..Len(v.items) |-> Repr(v.items[i])]) \o "]"
      [] v.t \in {"Text", "HtmlText", "JsText", "JsTextNode"} ->
           v.t \o "(\"" \o v.text \o "\")"
      [] v.t \in {"HtmlNodeList", "JsNodeList"} ->
           v.t \o "(["
             \o Join(", ", [i \in 1..Len(v.nodes) |-> Repr(v.nodes[i])]) \o "])"
      [] v.t = "obj" ->
           v.cls \o "(element=" \o Repr(nodes[v.id].element)
             \o ", children=" \o Repr(nodes[v.id].children)
             \o ", attributes={"
             \o Join(", ", [i \in 1..Len(nodes[v.id].attributes) |->
                              ReprItem(nodes[v.id].attributes[i])])
             \o "})"
      [] OTHER -> "<" \o v.t \o " object>"

(***************************************************************************)
(* The conversion registries.                                              *)
(***************************************************************************)
RECURSIVE html_basic_converter(_)
RECURSIVE js_basic_converter(_)
RECURSIVE try_from(_, _)

HtmlNodeList(items) ==
    [t |-> "HtmlNodeList",
     nodes |-> [i \in 1..Len(items) |->
                  try_from(<<"html_basic_converter">>, items[i]).v]]

JsNodeList(items) ==
    [t |-> "JsNodeList",
     nodes |-> [i \in 1..Len(items) |->
                  try_from(<<"js_basic_converter">>, items[i]).v]]

html_basic_converter(other) ==
    IF IsHtmlRenderable(other) THEN other
    ELSE IF IsRenderable(other) THEN HtmlLazyText(other)
    ELSE IF other = PyNone THEN HtmlText("")
    ELSE IF other.t = "list" THEN HtmlNodeList(other.items)
    ELSE HtmlText(Str(other))

js_basic_converter(other) ==
    IF IsJsRenderable(other) THEN other
    ELSE IF IsRenderable(other) THEN JsLazyTextNode(other)
    ELSE IF other = PyNone THEN JsTextNode("")
    ELSE IF other.t = "list" THEN JsNodeList(other.items)
    ELSE JsTextNode(Str(other))

\* Two converters a caller may register beside the basic ones: one that
\* accepts nothing, and one that accepts only a str.
reject_converter(other) == PyNone

str_converter(other) ==
    IF other.t = "str" THEN HtmlText("[" \o other.s \o "]") ELSE PyNone

Convert(converter, other) ==
    CASE converter = "html_basic_converter" -> html_basic_converter(other)
      [] converter = "js_basic_converter" -> js_basic_converter(other)
      [] converter = "str_converter" -> str_converter(other)
      [] converter = "reject_converter" -> reject_converter(other)

\* try_from with the loop not stopping at the first accepting converter: the
\* last one that accepts wins.
RECURSIVE try_from_last_match(_, _)
try_from_last_match(converters, other) ==
    IF converters = <<>>
    THEN Raised("TypeError", "Could not convert to HtmlRenderable: " \o Repr(other))
    ELSE LET result == Convert(Head(converters), other)
             rest == try_from_last_match(Tail(converters), other)
         IN  IF rest.ok THEN rest
             ELSE IF result # PyNone THEN Returned(result)
             ELSE rest

try_from(converters, other) ==
    IF converters = <<>>
    THEN Raised("TypeError", "Could not convert to HtmlRenderable: " \o Repr(other))
    ELSE LET result == Convert(Head(converters), other)
         IN  IF result # PyNone THEN Returned(result)
             ELSE try_from(Tail(converters), other)

Converters(cls) ==
    IF cls \in JsRenderableClasses
    THEN <<"js_basic_converter">>
    ELSE <<"html_basic_converter">>

cls_try_from(cls, other) == try_from(Converters(cls), other).v

(***************************************************************************)
(* The heap of node objects.                                               *)
(***************************************************************************)
\* Beside the object's fields a slot records the object's address (what
\* id(self) returned), whether the object is still alive, and whether the
\* caller ever supplied an id attribute for it.
NoNode ==
    [cls |-> "none", element |-> PyNone, children |-> PyNone,
     attributes |-> <<>>, addr |-> 0, live |-> FALSE, explicit |-> FALSE]

Live(h) == {n \in DOMAIN h : h[n].live}

Ref(h, n) == Obj(h[n].cls, n)

(***************************************************************************)
(* Rendering.  path holds the render calls in progress: entering one that  *)
(* is already in progress recurses without end, which Python ends with a   *)
(* RecursionError.                                                         *)
(***************************************************************************)
RECURSIVE render(_, _, _)
RECURSIVE render_nodes(_, _, _)
RECURSIVE render_attributes(_, _, _)
RECURSIVE AbstractHtmlNode_render(_, _, _)
RECURSIVE Bootstrap_render(_, _, _)
RECURSIVE identity(_, _, _)
RECURSIVE js_handle(_, _, _)
RECURSIVE child_accessors(_, _, _)

\* "".join([node.render() for node in self.nodes])
render_nodes(h, ns, path) ==
    IF ns = <<>> THEN Ok("")
    ELSE LET first == render(h, Head(ns), path)
         IN  IF ~first.ok THEN first
             ELSE LET rest == render_nodes(h, Tail(ns), path)
                  IN  IF ~rest.ok THEN rest ELSE Ok(first.s \o rest.s)

\* One attribute: key="value" when the value is not None, the key otherwise.
render_attribute(h, item, path) ==
    IF item.value # PyNone
    THEN LET val == render(h, item.value, path)
         IN  IF ~val.ok THEN val
             ELSE Ok(item.key \o "=\"" \o val.s \o "\"")
    ELSE Ok(item.key)

render_attributes(h, attrs, path) ==
    IF attrs = <<>> THEN Ok("")
    ELSE LET first == render_attribute(h, Head(attrs), path)
         IN  IF ~first.ok THEN first
             ELSE IF Len(attrs) = 1 THEN first
             ELSE LET rest == render_attributes(h, Tail(attrs), path)
                  IN  IF ~rest.ok THEN rest
                      ELSE Ok(first.s \o " " \o rest.s)

render_children(h, n, path) == render(h, h[n].children, path)

AbstractHtmlNode_render(h, n, path) ==
    IF <<"render", n>> \in path THEN Raise("RecursionError")
    ELSE LET p == path \cup {<<"render", n>>}
             element == render(h, h[n].element, p)
             attributes == render_attributes(h, h[n].attributes, p)
             children == render_children(h, n, p)
         IN  IF ~element.ok THEN element
             ELSE IF ~attributes.ok THEN attributes
             ELSE IF ~children.ok THEN children
             ELSE Ok("<" \o element.s
                     \o (IF attributes.s # "" THEN " " \o attributes.s ELSE "")
                     \o ">" \o children.s \o "</" \o element.s \o ">")

render(h, v, path) ==
    CASE v.t \in {"Text", "HtmlText", "JsText", "JsTextNode"} -> Ok(v.text)
      [] v.t \in {"HtmlLazyText", "JsLazyTextNode"} -> render(h, v.fn, path)
      [] v.t \in {"HtmlNodeList", "JsNodeList"} -> render_nodes(h, v.nodes, path)
      [] v.t = "obj" -> AbstractHtmlNode_render(h, v.id, path)
      [] v.t = "Bootstrap" -> Bootstrap_render(h, v.dom, path)
      [] OTHER -> Raise("AttributeError")

(***************************************************************************)
(* The dual-representation node.                                           *)
(***************************************************************************)
name_space == "__jshtml_"

\* self.attributes["id"].render()
identity(h, n, path) ==
    IF ~HasKey(h[n].attributes, "id") THEN Raise("KeyError")
    ELSE render(h, Get(h[n].attributes, "id"), path)

handle(h, n, attribute, path) ==
    LET id == identity(h, n, path)
    IN  IF ~id.ok THEN id
        ELSE Ok("window." \o name_space \o id.s
                \o (IF attribute # PyNone THEN "." \o attribute.s ELSE ""))

\* The source text of the live-introspection function.  A TLA+ string cannot
\* hold a backquote: the two template literals are delimited by ^ here.
JsHtmlNode_js_render_fn ==
    JsText("function () {"
           \o "  let result = '';"
           \o "  const element = this.getElement();"
           \o "  const tagName = element.tagName;"
           \o "  result += ^<${tagName}^;"
           \o "  for (attr of element.attributes) {"
           \o "    result += ^${attr.name}=^;"
           \o "    if (attr.value) result += ^${attr.value}^;"
           \o "  }"
           \o "  for (child of this.children) {"
           \o "    result += child().render();"
           \o "  }"
           \o "  return result;"
           \o "}")

\* JsFrozenHtmlNode defines js_render_fn as a plain method: the attribute
\* is the bound method, which returns the constant function when called.
JsFrozenHtmlNode_js_render_fn ==
    [t |-> "method", returns |-> JsText("() => {}")]

js_render_fn(cls) ==
    IF cls = "JsFrozenHtmlNode"
    THEN JsFrozenHtmlNode_js_render_fn
    ELSE JsHtmlNode_js_render_fn

\* child.js_handle, for a child of any class.
js_handle(h, child, path) ==
    IF child.t = "JsTextNode"
    THEN Ok("{render: " \o "() => '" \o child.text \o "'" \o "}")
    ELSE IF child.t = "JsLazyTextNode"
    THEN LET text == render(h, child, path)
         IN  IF ~text.ok THEN text
             ELSE Ok("{render: " \o "() => '" \o text.s \o "'" \o "}")
    ELSE IF child.t = "obj" /\ child.cls \in JsNodeClasses
    THEN handle(h, child.id, PyNone, path)
    ELSE Raise("AttributeError")

\* The accessors collected in the reverse of the children's order.
RECURSIVE child_accessors_reversed(_, _, _)
child_accessors_reversed(h, children, path) ==
    IF children = <<>> THEN Returned(<<>>)
    ELSE LET first == js_handle(h, Head(children), path)
         IN  IF ~first.ok THEN Raised(first.err, "")
             ELSE LET rest == child_accessors_reversed(h, Tail(children), path)
                  IN  IF ~rest.ok THEN rest
                      ELSE Returned(rest.v \o <<"() => " \o first.s>>)

\* [f"() => {child.js_handle}" for child in self.dom.children]
child_accessors(h, children, path) ==
    IF children = <<>> THEN Returned(<<>>)
    ELSE LET first == js_handle(h, Head(children), path)
         IN  IF ~first.ok THEN Raised(first.err, "")
             ELSE LET rest == child_accessors(h, Tail(children), path)
                  IN  IF ~rest.ok THEN rest
                      ELSE Returned(<<"() => " \o first.s>> \o rest.v)

\* iter(self.dom.children): only a node list can be iterated.
Iterate(children) ==
    IF children.t \in {"HtmlNodeList", "JsNodeList"}
    THEN Returned(children.nodes)
    ELSE Raised("TypeError", "")

Bootstrap_children(h, n, path) ==
    LET nodelist == Iterate(h[n].children)
    IN  IF ~nodelist.ok THEN nodelist
        ELSE child_accessors(h, nodelist.v, path)

Bootstrap_render(h, n, path) ==
    IF <<"bootstrap", n>> \in path THEN Raise("RecursionError")
    ELSE LET p == path \cup {<<"bootstrap", n>>}
             slot == handle(h, n, PyNone, p)
             id == identity(h, n, p)
             fn == render(h, js_render_fn(h[n].cls), p)
             children == Bootstrap_children(h, n, p)
         IN  IF ~slot.ok THEN slot
             ELSE IF ~id.ok THEN id
             ELSE IF ~fn.ok THEN fn
             ELSE IF ~children.ok THEN Raise(children.err)
             ELSE Ok("(() => {" \o slot.s \o "=" \o "{"
                     \o "getElement: () => " \o "window['" \o id.s \o "'],"
                     \o "render: " \o fn.s \o ","
                     \o "children: [" \o Join(",", children.v) \o "],"
                     \o "};" \o "})();")

(***************************************************************************)
(* Construction and reconfiguration of nodes.                              *)
(***************************************************************************)
\* {key: cls.try_from(value) if value else value for key, value in items}
ConvertItems(cls, items) ==
    [i \in 1..Len(items) |->
       Item(items[i].key,
            IF Truthy(items[i].value)
            THEN cls_try_from(cls, items[i].value)
            ELSE items[i].value)]

\* The dict an attributes argument denotes (the argument's own items).
ItemsOf(attributes, sh) ==
    IF attributes = SharedDict THEN sh
    ELSE IF attributes.t = "dict" THEN attributes.items
    ELSE <<>>

HtmlNode_init(cls, children, items, element) ==
    [cls |-> cls,
     element |-> cls_try_from(cls, Or(element, PyStr(""))),
     children |-> cls_try_from(cls, Or(children, PyList(<<>>))),
     attributes |-> ConvertItems(cls, items)]

\* Whether an attributes argument written by the caller carries an id.
SuppliesId(attributes) ==
    attributes.t = "dict" /\ HasKey(attributes.items, "id")

\* JsHtmlNode.__init__ up to the call of super().__init__: the dict it was
\* given (a new one for None), with the default id stored into it.
JsHtmlNode_init_attributes(cls, items, addr) ==
    IF Get(items, "id") = PyNone
    THEN SetItem(items, "id", cls_try_from(cls, PyStr(ToString(addr))))
    ELSE items

NextSlot(h) == CHOOSE n \in DOMAIN h : h[n] = NoNode /\ \A m \in 1..(n - 1) : h[m] # NoNode

\* id(self): an address no live object has.  There are as many addresses as
\* slots, so that the address of a freed object can come back.
FreeAddresses(h) == DOMAIN h \ {h[n].addr : n \in Live(h)}

\* cls(children, attributes, element), for a node class cls; id(self) = addr.
New(cls, children, attributes, element, addr) ==
    /\ \E n \in DOMAIN nodes : nodes[n] = NoNode
    /\ addr \in FreeAddresses(nodes)
    /\ LET n == NextSlot(nodes)
           given == ItemsOf(attributes, shared)
           items == IF cls \in JsNodeClasses
                    THEN JsHtmlNode_init_attributes(cls, given, addr)
                    ELSE given
       IN  /\ nodes' = [nodes EXCEPT
                          ![n] = HtmlNode_init(cls, children, items, element)
                                   @@ [addr |-> addr, live |-> TRUE,
                                       explicit |-> SuppliesId(attributes)]]
           /\ shared' = IF attributes = SharedDict THEN items ELSE shared

\* The attributes branch of __call__ with the given map replacing the
\* node's map instead of being merged into it.
HtmlNode_call_attributes_replace(cls, current, attributes, sh) ==
    IF attributes = Ellipsis THEN current
    ELSE IF attributes = PyNone THEN <<>>
    ELSE ConvertItems(cls, ItemsOf(attributes, sh))

HtmlNode_call_attributes(cls, current, attributes, sh) ==
    IF attributes = Ellipsis THEN current
    ELSE IF attributes = PyNone THEN <<>>
    ELSE Update(current, ConvertItems(cls, ItemsOf(attributes, sh)))

HtmlNode_call(self, children, attributes, element, sh) ==
    [self EXCEPT
       !.element = IF element # Ellipsis
                   THEN cls_try_from(self.cls, Or(element, PyStr("")))
                   ELSE @,
       !.children = IF children # Ellipsis
                    THEN cls_try_from(self.cls, Or(children, PyList(<<>>)))
                    ELSE @,
       !.attributes = HtmlNode_call_attributes(self.cls, @, attributes, sh),
       !.explicit = @ \/ SuppliesId(attributes)]

\* node(children, attributes, element): mutates the node and returns it.
Call(n, children, attributes, element) ==
    /\ n \in Live(nodes)
    /\ nodes' = [nodes EXCEPT
                   ![n] = HtmlNode_call(@, children, attributes, element, shared)]
    /\ UNCHANGED shared

\* The node objects a value refers to.
RECURSIVE Refs(_)
RECURSIVE RefsOfAll(_)
Refs(v) ==
    CASE v.t = "obj" -> {v.id}
      [] v.t = "Bootstrap" -> {v.dom}
      [] v.t \in {"HtmlLazyText", "JsLazyTextNode"} -> Refs(v.fn)
      [] v.t \in {"HtmlNodeList", "JsNodeList"} -> RefsOfAll(v.nodes)
      [] v.t = "list" -> RefsOfAll(v.items)
      [] OTHER -> {}

RefsOfAll(vs) == IF vs = <<>> THEN {} ELSE Refs(Head(vs)) \cup RefsOfAll(Tail(vs))

RefsOfNode(node) ==
    Refs(node.element) \cup Refs(node.children)
      \cup RefsOfAll([i \in 1..Len(node.attributes) |-> node.attributes[i].value])

\* The last reference to a node is dropped and the collector frees it: its
\* address may be given to a later object.
Discard(n) ==
    /\ n \in Live(nodes)
    /\ \A m \in Live(nodes) \ {n} : n \notin RefsOfNode(nodes[m])
    /\ nodes' = [nodes EXCEPT ![n].live = FALSE]
    /\ UNCHANGED shared

(***************************************************************************)
(* The operations of a run, recorded in last.                              *)
(***************************************************************************)
Operation(op, n, children, attributes, element, ret) ==
    [op |-> op, node |-> n, children |-> children, attributes |-> attributes,
     element |-> element, ret |-> ret]

NoOp == Operation("none", 0, Ellipsis, Ellipsis, Ellipsis, PyNone)

EmptyHeap(k) == [n \in 1..k |-> NoNode]

NoConv == [registry |-> <<>>, value |-> PyNone, result |-> PyNone]

(***************************************************************************)
(* Spec: trees of dual-representation nodes.  Nodes are constructed with   *)
(* or without children, and reconfigured with texts, other nodes and       *)
(* bootstrap objects as children.                                          *)
(***************************************************************************)
NestedChildren == PyList(<<PyStr("a"), PyList(<<PyStr("b")>>)>>)

TreeCallChildren(h, n) ==
    {PyList(<<PyStr("x"), PyStr("y")>>)}
      \cup {PyList(<<Bootstrap(m)>>) : m \in Live(h)}
      \cup {PyList(<<PyStr("x"), Ref(h, m)>>) : m \in Live(h) \ {n}}

Init ==
    /\ nodes = EmptyHeap(MaxNodes)
    /\ shared = <<>>
    /\ last = NoOp
    /\ pc = "idle"
    /\ conv = NoConv

TreeNew ==
    \E cls \in JsNodeClasses, children \in {PyNone, NestedChildren},
       addr \in FreeAddresses(nodes) :
        /\ New(cls, children, PyNone, PyStr("p"), addr)
        /\ last' = Operation("new", NextSlot(nodes), children, PyNone, PyStr("p"),
                             Obj(cls, NextSlot(nodes)))
        /\ UNCHANGED <<pc, conv>>

TreeCall ==
    \E n \in Live(nodes) :
        \E children \in TreeCallChildren(nodes, n) :
            /\ Call(n, children, Ellipsis, Ellipsis)
            /\ last' = Operation("call", n, children, Ellipsis, Ellipsis,
                                 Ref(nodes, n))
            /\ UNCHANGED <<pc, conv>>

Next == TreeNew \/ TreeCall

Spec == Init /\ [][Next]_vars

(***************************************************************************)
(* Claims about trees of dual-representation nodes (Spec).                 *)
(***************************************************************************)
JsLive(h) == {n \in Live(h) : h[n].cls \in JsNodeClasses}

ConstantNoOp == "() => {}"

BootstrapShape(slot, id, fn, accessors) ==
    "(() => {" \o slot \o "={getElement: () => window['" \o id \o "'],render: "
      \o fn \o ",children: [" \o Join(",", accessors) \o "],};})();"

\* The accessor the script is to hold for one child: a function of no
\* argument returning the child's handle.
AccessorOf(h, child) ==
    "() => "
      \o (IF child.t = "obj"
          THEN "window." \o name_space \o identity(h, child.id, {}).s
          ELSE "{render: () => '" \o render(h, child, {}).s \o "'}")

\* C4 (as claimed): a frozen node's render_fn is the source of the constant
\* no-op function, and its bootstrap script renders, with that function as
\* its render entry, whenever its identity and its children's handles can be
\* computed.
C4_FrozenRenderFn ==
    \A n \in Live(nodes) :
        nodes[n].cls = "JsFrozenHtmlNode" =>
            LET fn == render(nodes, js_render_fn(nodes[n].cls), {})
                id == identity(nodes, n, {})
                script == Bootstrap_render(nodes, n, {})
                accessors == Bootstrap_children(nodes, n, {<<"bootstrap", n>>})
            IN  /\ fn.ok
                /\ fn.s = ConstantNoOp
                /\ (id.ok /\ accessors.ok) =>
                     /\ script.ok
                     /\ script.s = BootstrapShape("window." \o name_space \o id.s,
                                                  id.s, ConstantNoOp, accessors.v)

\* C8: whenever the bootstrap script of a node is rendered, it has the fixed
\* shape, with one accessor per child the node has now, in the children's
\* current order.
C8_BootstrapComplete ==
    \A n \in JsLive(nodes) :
        LET script == Bootstrap_render(nodes, n, {})
            children == nodes[n].children.nodes
            id == identity(nodes, n, {})
            fn == render(nodes, js_render_fn(nodes[n].cls), {})
        IN  script.ok =>
              script.s = BootstrapShape(
                  "window." \o name_space \o id.s, id.s, fn.s,
                  [i \in 1..Len(children) |-> AccessorOf(nodes, children[i])])

\* A bootstrap object was embedded in another node, its owner was then given
\* two children, and the script renders with the two accessors.
C8_Witness ==
    \E n \in JsLive(nodes), m \in JsLive(nodes) :
        /\ n # m
        /\ nodes[m].children = JsNodeList(<<Bootstrap(n)>>)
        /\ last.op = "call" /\ last.node = n
        /\ Len(nodes[n].children.nodes) = 2
        /\ Bootstrap_render(nodes, n, {}).ok
        /\ render(nodes, Ref(nodes, m), {}).ok

\* C10 (as claimed): every child the target-language registry produced for a
\* node is of the target-language family, and so has a handle.
C10_FamilyClosure ==
    \A n \in JsLive(nodes) :
        \A i \in 1..Len(nodes[n].children.nodes) :
            LET child == nodes[n].children.nodes[i]
            IN  /\ IsJsRenderable(child)
                /\ js_handle(nodes, child, {}).err # "AttributeError"

(***************************************************************************)
(* SpecIdentity: dual-representation nodes constructed with no attributes, *)
(* with the dict the caller keeps, or with an explicit id; reconfigured;   *)
(* and discarded.                                                          *)
(***************************************************************************)
IdentityNewAttributes ==
    {PyNone, SharedDict, PyDict(<<Item("id", PyStr("root"))>>)}

IdentityCallArguments ==
    {[children |-> Ellipsis, attributes |-> PyNone, element |-> Ellipsis],
     [children |-> Ellipsis, attributes |-> PyDict(<<Item("id", PyStr("other"))>>),
      element |-> Ellipsis],
     [children |-> PyList(<<PyStr("a")>>),
      attributes |-> PyDict(<<Item("class", PyStr("x"))>>),
      element |-> PyStr("q")]}

IdentityNew ==
    \E attributes \in IdentityNewAttributes, addr \in FreeAddresses(nodes) :
        /\ New("JsHtmlNode", PyNone, attributes, PyStr("p"), addr)
        /\ last' = Operation("new", NextSlot(nodes), PyNone, attributes, PyStr("p"),
                             Obj("JsHtmlNode", NextSlot(nodes)))
        /\ UNCHANGED <<pc, conv>>

IdentityCall ==
    \E n \in Live(nodes), a \in IdentityCallArguments :
        /\ Call(n, a.children, a.attributes, a.element)
        /\ last' = Operation("call", n, a.children, a.attributes, a.element,
                             Ref(nodes, n))
        /\ UNCHANGED <<pc, conv>>

IdentityDiscard ==
    \E n \in Live(nodes) :
        /\ Discard(n)
        /\ last' = Operation("discard", n, Ellipsis, Ellipsis, Ellipsis, PyNone)
        /\ UNCHANGED <<pc, conv>>

NextIdentity == IdentityNew \/ IdentityCall \/ IdentityDiscard

SpecIdentity == Init /\ [][NextIdentity]_vars

Allocated(h) == {n \in DOMAIN h : h[n] # NoNode}

\* C1 (as claimed): a reconfigure call leaves the identity of the node what
\* it was: no step changes the identity of a live node or makes it fail.
C1_IdentityStable ==
    [][\A n \in Live(nodes) :
          n \in Live(nodes') /\ identity(nodes, n, {}).ok =>
              identity(nodes', n, {}) = identity(nodes, n, {})]_vars

\* C2 (as claimed): two distinct nodes for which the caller never supplied
\* an id, alive or discarded, have different identities.
C2_DefaultIdentityUnique ==
    \A n \in Allocated(nodes), m \in Allocated(nodes) :
        (/\ n # m
         /\ ~nodes[n].explicit /\ ~nodes[m].explicit
         /\ identity(nodes, n, {}).ok /\ identity(nodes, m, {}).ok) =>
            identity(nodes, n, {}).s # identity(nodes, m, {}).s

(***************************************************************************)
(* SpecAttrs: markup nodes constructed with attribute maps (absent, empty  *)
(* and non-empty values) and reconfigured with every kind of attributes    *)
(* argument.                                                               *)
(***************************************************************************)
Arguments(children, attributes, element) ==
    [children |-> children, attributes |-> attributes, element |-> element]

AttrsNewArguments ==
    {Arguments(PyNone,
               PyDict(<<Item("disabled", PyNone), Item("value", PyStr("x"))>>),
               PyStr("input")),
     Arguments(PyList(<<PyStr("a"), PyStr("b"), PyStr("c")>>),
               PyDict(<<Item("id", PyStr("1"))>>), PyStr("a")),
     Arguments(PyNone, PyNone, PyNone)}

AttrsCallArguments ==
    {Arguments(Ellipsis, PyDict(<<Item("class", PyStr("x"))>>), Ellipsis),
     Arguments(Ellipsis, PyNone, Ellipsis),
     Arguments(Ellipsis, PyDict(<<Item("value", PyStr("")), Item("id", PyStr("2"))>>),
               Ellipsis),
     Arguments(PyList(<<PyStr("d")>>), Ellipsis, Ellipsis),
     Arguments(PyNone, PyDict(<<>>), PyStr("q"))}

InitAttrs ==
    /\ nodes = EmptyHeap(MaxAttrNodes)
    /\ shared = <<>>
    /\ last = NoOp
    /\ pc = "idle"
    /\ conv = NoConv

AttrsNew ==
    \E a \in AttrsNewArguments, addr \in FreeAddresses(nodes) :
        /\ New("HtmlNode", a.children, a.attributes, a.element, addr)
        /\ last' = Operation("new", NextSlot(nodes), a.children, a.attributes,
                             a.element, Obj("HtmlNode", NextSlot(nodes)))
        /\ UNCHANGED <<pc, conv>>

AttrsCall ==
    \E n \in Live(nodes), a \in AttrsCallArguments :
        /\ Call(n, a.children, a.attributes, a.element)
        /\ last' = Operation("call", n, a.children, a.attributes, a.element,
                             Ref(nodes, n))
        /\ UNCHANGED <<pc, conv>>

NextAttrs == AttrsNew \/ AttrsCall

SpecAttrs == InitAttrs /\ [][NextAttrs]_vars

\* C5 (as claimed): the attributes of a node render, in map order and
\* separated by single spaces, as the bare key for a value given as None or
\* as another falsy value (which the node stores unconverted) and as
\* key="v" for a converted value; rendering them never fails.
C5_AttributeRule ==
    \A n \in Live(nodes) :
        LET attrs == nodes[n].attributes
            rendered == render_attributes(nodes, attrs, {})
        IN  /\ rendered.ok
            /\ rendered.s =
                 Join(" ", [i \in 1..Len(attrs) |->
                              IF IsRenderable(attrs[i].value)
                              THEN attrs[i].key \o "=\""
                                     \o render(nodes, attrs[i].value, {}).s \o "\""
                              ELSE attrs[i].key])

\* The value an attribute of the given map takes in the node.
ConvertedValue(cls, v) == IF Truthy(v) THEN cls_try_from(cls, v) ELSE v

\* C6: a reconfigure call returns the node it was called on and allocates
\* nothing; with attributes omitted the map is unchanged, with None it is
\* empty, with a map B every old key outside B keeps its value and every key
\* of B takes B's converted value; element and children, when omitted, are
\* unchanged.
C6_Reconfigure ==
    [][last'.op = "call" =>
         LET n == last'.node
             old == nodes[n].attributes
             new == nodes'[n].attributes
             B == last'.attributes
         IN  /\ last'.ret = Ref(nodes, n)
             /\ \A m \in DOMAIN nodes : m # n => nodes'[m] = nodes[m]
             /\ nodes'[n].cls = nodes[n].cls /\ nodes'[n].addr = nodes[n].addr
             /\ B = Ellipsis => new = old
             /\ B = PyNone => new = <<>>
             /\ B.t = "dict" =>
                  /\ Keys(new) = Keys(old) \cup Keys(B.items)
                  /\ Len(new) = Cardinality(Keys(new))
                  /\ \A k \in Keys(old) \ Keys(B.items) : Get(new, k) = Get(old, k)
                  /\ \A k \in Keys(B.items) :
                       Get(new, k) = ConvertedValue(nodes[n].cls, Get(B.items, k))
             /\ last'.element = Ellipsis => nodes'[n].element = nodes[n].element
             /\ last'.children = Ellipsis => nodes'[n].children = nodes[n].children
      ]_vars

\* A map was merged into a node that keeps a key of its own, an element and
\* children.
C6_Witness ==
    /\ last.op = "call"
    /\ last.attributes = PyDict(<<Item("value", PyStr("")), Item("id", PyStr("2"))>>)
    /\ last.children = Ellipsis /\ last.element = Ellipsis
    /\ Keys(nodes[last.node].attributes) = {"id", "class", "value"}
    /\ Get(nodes[last.node].attributes, "class") = HtmlText("x")
    /\ Get(nodes[last.node].attributes, "id") = HtmlText("2")
    /\ nodes[last.node].attributes[1].key = "id"
    /\ Len(nodes[last.node].children.nodes) = 3
    /\ nodes[last.node].element = HtmlText("a")

\* What the function emitted as render_fn computes (lines 252-265 of the
\* source, run over a tag name, the attributes as name and value texts, and
\* the texts the child accessors render).
RECURSIVE js_render_fn_attributes(_)
js_render_fn_attributes(attributes) ==
    IF attributes = <<>> THEN ""
    ELSE Head(attributes).name \o "="
           \o (IF Head(attributes).value # "" THEN Head(attributes).value ELSE "")
           \o js_render_fn_attributes(Tail(attributes))

js_render_fn_run(tagName, attributes, children) ==
    "<" \o tagName \o js_render_fn_attributes(attributes) \o Join("", children)

\* The data of a node as the emitted function would find it.
TagName(h, n) == render(h, h[n].element, {}).s

LiveAttributes(h, n) ==
    [i \in 1..Len(h[n].attributes) |->
       [name |-> h[n].attributes[i].key,
        value |-> IF IsRenderable(h[n].attributes[i].value)
                  THEN render(h, h[n].attributes[i].value, {}).s
                  ELSE ""]]

ChildRenders(h, n) ==
    [i \in 1..Len(h[n].children.nodes) |-> render(h, h[n].children.nodes[i], {}).s]

\* C7 (as claimed): the emitted render algorithm assembles, from the data of
\* a node, the string the node's own render assembles.
C7_RenderEquivalence ==
    \A n \in JsLive(nodes) :
        LET markup == render(nodes, Ref(nodes, n), {})
        IN  markup.ok =>
              js_render_fn_run(TagName(nodes, n), LiveAttributes(nodes, n),
                               ChildRenders(nodes, n)) = markup.s

(***************************************************************************)
(* SpecConvert: try_from of a class whose converters list the caller has   *)
(* set, applied to values of every kind.  The heap holds one markup node   *)
(* and one dual-representation node, constructed without arguments.        *)
(***************************************************************************)
ConverterNames ==
    {"html_basic_converter", "js_basic_converter", "str_converter",
     "reject_converter"}

RECURSIVE Registries(_)
Registries(k) ==
    IF k = 0 THEN {<<>>}
    ELSE Registries(k - 1)
           \cup {Append(r, c) : r \in Registries(k - 1), c \in ConverterNames}

ConvertValues ==
    {PyStr("a"), PyStr(""), PyInt(7), PyNone,
     PyList(<<PyStr("a"), PyInt(1), PyList(<<PyNone>>)>>), PyList(<<>>),
     Text("t"), HtmlText("h"), JsTextNode("j"),
     Obj("HtmlNode", 1), Obj("JsHtmlNode", 2)}

NotCalled == [called |-> FALSE]

InitConvert ==
    /\ nodes = [n \in 1..MaxNodes |->
                  IF n = 1
                  THEN HtmlNode_init("HtmlNode", PyNone, <<>>, PyNone)
                         @@ [addr |-> 1, live |-> TRUE, explicit |-> FALSE]
                  ELSE IF n = 2
                  THEN HtmlNode_init(
                           "JsHtmlNode", PyNone,
                           JsHtmlNode_init_attributes("JsHtmlNode", <<>>, 2), PyNone)
                         @@ [addr |-> 2, live |-> TRUE, explicit |-> FALSE]
                  ELSE NoNode]
    /\ shared = <<>>
    /\ last = NoOp
    /\ pc = "idle"
    /\ conv = [registry |-> <<"html_basic_converter">>, value |-> PyNone,
               result |-> NotCalled]

\* The caller sets the converters of a class and picks a value.
ConvertInput ==
    /\ \E r \in Registries(MaxConverters), v \in ConvertValues :
           conv' = [registry |-> r, value |-> v, result |-> NotCalled]
    /\ UNCHANGED <<nodes, shared, last, pc>>

\* cls.try_from(value)
ConvertTryFrom ==
    /\ conv.result = NotCalled
    /\ conv' = [conv EXCEPT
                  !.result = try_from(conv.registry, conv.value)
                               @@ [called |-> TRUE, msg |-> ""]]
    /\ UNCHANGED <<nodes, shared, last, pc>>

NextConvert == ConvertInput \/ ConvertTryFrom

SpecConvert == InitConvert /\ [][NextConvert]_vars

Accepting(registry, v) ==
    {i \in 1..Len(registry) : Convert(registry[i], v) # PyNone}

First(S) == CHOOSE i \in S : \A j \in S : i <= j

TextClasses == {"HtmlText", "JsTextNode"}

LazyClasses == {"HtmlLazyText", "JsLazyTextNode"}

ListClasses == {"HtmlNodeList", "JsNodeList"}

\* What the default chain of a family gives for a value: the value itself
\* when it is of the family, a lazy text bound to it when it is another
\* renderable, the empty text for None, a node list of the converted items
\* for a list, and the text of its string form otherwise.
DefaultChainRule(registry, native, v, result) ==
    /\ result.ok
    /\ native => result.v = v
    /\ (~native /\ IsRenderable(v)) =>
           result.v.t \in LazyClasses /\ result.v.fn = v
    /\ v = PyNone => result.v.t \in TextClasses /\ result.v.text = ""
    /\ v.t = "list" =>
           /\ result.v.t \in ListClasses
           /\ Len(result.v.nodes) = Len(v.items)
           /\ \A i \in 1..Len(v.items) :
                  result.v.nodes[i] = try_from(registry, v.items[i]).v
    /\ v.t \in {"str", "int"} =>
           result.v.t \in TextClasses /\ result.v.text = Str(v)

\* C9: try_from returns what the first accepting converter of the list
\* returns, and raises the conversion error, naming the value, exactly when
\* no converter accepts; the default chain of either family never raises and
\* converts each kind of value as documented.
C9_FirstMatchTotal ==
    conv.result # NotCalled =>
        LET accepting == Accepting(conv.registry, conv.value)
            result == conv.result
        IN  /\ accepting # {} =>
                  /\ result.ok
                  /\ result.v = Convert(conv.registry[First(accepting)], conv.value)
            /\ accepting = {} =>
                  /\ ~result.ok
                  /\ result.err = "TypeError"
                  /\ result.msg = "Could not convert to HtmlRenderable: "
                                    \o Repr(conv.value)
            /\ conv.registry = <<"html_basic_converter">> =>
                  DefaultChainRule(conv.registry, IsHtmlRenderable(conv.value),
                                   conv.value, result)
            /\ conv.registry = <<"js_basic_converter">> =>
                  DefaultChainRule(conv.registry, IsJsRenderable(conv.value),
                                   conv.value, result)

\* Two converters accept the value and the first one's result is returned.
C9_Witness ==
    /\ conv.result # NotCalled
    /\ conv.registry = <<"str_converter", "html_basic_converter">>
    /\ conv.value = PyStr("a")
    /\ conv.result.ok
    /\ conv.result.v = HtmlText("[a]")

\* The conversion error is raised for a registry no converter of which
\* accepts the value.
C9_WitnessError ==
    /\ conv.result # NotCalled
    /\ conv.registry = <<"str_converter", "reject_converter">>
    /\ conv.value = Obj("JsHtmlNode", 2)
    /\ ~conv.result.ok

(***************************************************************************)
(* SpecExample: the example driver (the __main__ block), one action per    *)
(* statement, in Python's order of evaluation: the five constructors, the  *)
(* reconfigure calls from the innermost outwards, and dom.render().        *)
(* The nodes take the slots html = 1, head = 2, script = 3, body = 4 and   *)
(* heading = 5; the addresses of the objects are whatever id() gives.      *)
(***************************************************************************)
html == 1

head == 2

script == 3

body == 4

heading == 5

ExampleNodes == {html, head, script, body, heading}

InitExample ==
    /\ nodes = EmptyHeap(Cardinality(ExampleNodes))
    /\ shared = <<>>
    /\ last = NoOp
    /\ pc = "html"
    /\ conv = NoConv

ExampleNew(at, cls, attributes, element, then) ==
    /\ pc = at
    /\ \E addr \in FreeAddresses(nodes) :
           New(cls, PyNone, attributes, PyStr(element), addr)
    /\ last' = Operation("new", NextSlot(nodes), PyNone, attributes,
                         PyStr(element), Obj(cls, NextSlot(nodes)))
    /\ pc' = then
    /\ UNCHANGED conv

ExampleCall(at, n, children, then) ==
    /\ pc = at
    /\ Call(n, PyList(children), Ellipsis, Ellipsis)
    /\ last' = Operation("call", n, PyList(children), Ellipsis, Ellipsis,
                         Ref(nodes, n))
    /\ pc' = then
    /\ UNCHANGED conv

NewHtml ==
    ExampleNew("html", "JsHtmlNode", PyDict(<<Item("id", PyStr("root"))>>),
               "html", "head")

NewHead == ExampleNew("head", "JsHtmlNode", PyNone, "head", "script")

NewScript ==
    ExampleNew("script", "JsFrozenHtmlNode", PyDict(<<Item("lang", PyStr("js"))>>),
               "script", "body")

NewBody == ExampleNew("body", "JsHtmlNode", PyNone, "body", "heading")

NewHeading ==
    ExampleNew("heading", "JsHtmlNode", PyDict(<<Item("id", PyStr("heading"))>>),
               "span", "script(...)")

CallScript ==
    ExampleCall("script(...)", script,
                <<Bootstrap(html), Bootstrap(head), Bootstrap(script),
                  Bootstrap(body), Bootstrap(heading)>>,
                "head(...)")

CallHead ==
    ExampleCall("head(...)", head, <<Ref(nodes, script)>>, "heading(...)")

CallHeading ==
    ExampleCall("heading(...)", heading, <<PyStr("Hello, World!")>>, "body(...)")

CallBody ==
    ExampleCall("body(...)", body, <<Ref(nodes, heading)>>, "html(...)")

CallHtml ==
    ExampleCall("html(...)", html, <<Ref(nodes, head), Ref(nodes, body)>>,
                "dom.render()")

\* print(dom.render()): the text, or the exception that ends the program.
RenderDom ==
    /\ pc = "dom.render()"
    /\ last' = Operation("render", html, Ellipsis, Ellipsis, Ellipsis,
                         render(nodes, Ref(nodes, html), {}))
    /\ pc' = "done"
    /\ UNCHANGED <<nodes, shared, conv>>

NextExample ==
    \/ NewHtml
    \/ NewHead
    \/ NewScript
    \/ NewBody
    \/ NewHeading
    \/ CallScript
    \/ CallHead
    \/ CallHeading
    \/ CallBody
    \/ CallHtml
    \/ RenderDom

SpecExample == InitExample /\ [][NextExample]_vars

\* The render entry a node's bootstrap script installs.
RenderEntry(h, n) == render(h, js_render_fn(h[n].cls), {})

\* C3 (as claimed): the example's render returns the nested markup of the
\* tree; the script node's installed render function is the constant no-op
\* and every other node's is the live-introspection function.
C3_ExampleRenders ==
    pc = "done" =>
        /\ last.ret.ok
        /\ last.ret.s =
             "<html id=\"root\">"
               \o "<head id=\"" \o identity(nodes, head, {}).s \o "\">"
               \o "<script lang=\"js\" id=\"" \o identity(nodes, script, {}).s \o "\">"
               \o Bootstrap_render(nodes, html, {}).s
               \o Bootstrap_render(nodes, head, {}).s
               \o Bootstrap_render(nodes, script, {}).s
               \o Bootstrap_render(nodes, body, {}).s
               \o Bootstrap_render(nodes, heading, {}).s
               \o "</script></head>"
               \o "<body id=\"" \o identity(nodes, body, {}).s \o "\">"
               \o "<span id=\"heading\">Hello, World!</span></body></html>"
        /\ \A n \in Live(nodes) :
               /\ Bootstrap_render(nodes, n, {}).ok
               /\ RenderEntry(nodes, n) =
                    IF n = script THEN Ok(ConstantNoOp)
                    ELSE Ok(JsHtmlNode_js_render_fn.text)

====
